---- MODULE Spec2Model ----
(***************************************************************************)
(* A model of the Aillio R1 V2 roaster interface, class AillioR1Demo of    *)
(* aillio.py: the USB session, the command queue, the step setters and the *)
(* time-gated status poll.                                                 *)
(*                                                                         *)
(* Conventions.                                                            *)
(*   - Bytes are integers 0..255; a command or a reply is a sequence of    *)
(*     bytes.  Python's offset k of a buffer is index k+1 of the sequence. *)
(*   - None and an empty buffer are both the empty sequence: the code only *)
(*     ever tests a reply for truthiness.                                  *)
(*   - A float rounded to one decimal is held as an integer number of      *)
(*     tenths (200.1 is 2001).                                             *)
(*   - A setter's argument is a float; it is held as an integer number of  *)
(*     halves (9.5 is 19), enough to tell int()'s truncation from floor    *)
(*     and from rounding.                                                  *)
(*   - Time is counted in units of 10 ms.                                  *)
(***************************************************************************)
EXTENDS Integers, Sequences, FiniteSets, TLC

\* ------------------------------------------------------------ constants

AILLIO_PID == 22337          \* 0x5741
AILLIO_PID_REV3 == 41598     \* 0xa27e
AILLIO_CONFIGURATION == 1

AILLIO_CMD_INFO1 == <<48, 2>>                  \* [0x30, 0x02]
AILLIO_CMD_INFO2 == <<137, 1>>                 \* [0x89, 0x01]
AILLIO_CMD_STATUS1 == <<48, 1>>                \* [0x30, 0x01]
AILLIO_CMD_STATUS2 == <<48, 3>>                \* [0x30, 0x03]
AILLIO_CMD_HEATER_INCR == <<52, 1, 170, 170>>  \* [0x34, 0x01, 0xaa, 0xaa]
AILLIO_CMD_HEATER_DECR == <<52, 2, 170, 170>>  \* [0x34, 0x02, 0xaa, 0xaa]
AILLIO_CMD_FAN_INCR == <<49, 1, 170, 170>>     \* [0x31, 0x01, 0xaa, 0xaa]
AILLIO_CMD_FAN_DECR == <<49, 2, 170, 170>>     \* [0x31, 0x02, 0xaa, 0xaa]

AILLIO_STATE_OFF == 0
AILLIO_STATE_PH == 2
AILLIO_STATE_CHARGE == 4
AILLIO_STATE_ROASTING == 6
AILLIO_STATE_COOLING == 8
AILLIO_STATE_SHUTDOWN == 9

\* self.status_update_interval = 0.1 s, in units of 10 ms.
status_update_interval == 10
\* time.sleep(0.01) after a drained command, in units of 10 ms.
SettleDelay == 1
\* The validity marker a status reply must carry at offset 41.
ValidMarker == 10

NoHandle == "None"

\* -------------------------------------------------------------- bounds

\* The number of setter calls in one run.
MaxCalls == 2

\* ------------------------------------------------------- pure helpers

Min2(a, b) == IF a < b THEN a ELSE b
Max2(a, b) == IF a > b THEN a ELSE b
Abs(x) == IF x < 0 THEN -x ELSE x

RECURSIVE Pow2(_)
Pow2(n) == IF n = 0 THEN 1 ELSE 2 * Pow2(n - 1)

\* Python's int() of a float given in halves: truncation toward zero.
PyInt(h) == IF h >= 0 THEN h \div 2 ELSE -((-h) \div 2)

\* Python's buf[a:b]: the bytes at offsets a..b-1 that exist.
PySlice(buf, a, b) ==
  IF a >= Min2(b, Len(buf)) THEN <<>> ELSE SubSeq(buf, a + 1, Min2(b, Len(buf)))

\* Python's buf[k].
At(buf, k) == buf[k + 1]

\* n copies of cmd: what `for _ in range(n): queue.append(cmd)` appends.
Repeat(cmd, n) == [i \in 1..n |-> cmd]

\* round(unpack('f', b)[0], 1) in tenths, for four little-endian bytes of an
\* IEEE 754 single: sign, biased exponent e and mantissa m; the value is
\* mant * 2^(E-150).  Ties round to even, as Python's round does.  Defined for
\* finite values below 2^27 in magnitude.
RoundF1(b) ==
  LET sign == b[4] \div 128
      e == (b[4] % 128) * 2 + (b[3] \div 128)
      m == (b[3] % 128) * 65536 + b[2] * 256 + b[1]
      mant == IF e = 0 THEN m ELSE 8388608 + m
      E == IF e = 0 THEN 1 ELSE e
      N == 10 * mant
      mag == IF E >= 150 THEN N * Pow2(E - 150)
             ELSE IF 150 - E > 28 THEN 0
             ELSE LET D == Pow2(150 - E)
                      q == N \div D
                      r == N % D
                  IN IF 2 * r < D THEN q
                     ELSE IF 2 * r > D THEN q + 1
                     ELSE IF q % 2 = 0 THEN q ELSE q + 1
  IN IF sign = 1 THEN -mag ELSE mag

\* unpack('h', b)[0]: a little-endian signed 16-bit integer.
UnpackH(b) ==
  LET u == b[1] + 256 * b[2] IN IF u >= 32768 THEN u - 65536 ELSE u

\* unpack('>I', b)[0]: a big-endian unsigned 32-bit integer (top byte < 128
\* in every reply of the model, so that the value fits TLC's integers).
UnpackBigI(b) == ((b[1] * 256 + b[2]) * 256 + b[3]) * 256 + b[4]

\* ------------------------------------------------------------- state

VARIABLES
  usbhandle,            \* self.usbhandle: NoHandle or the device found
  bt, dt, bt_ror,       \* temperatures and rate of rise, in tenths
  fan_rpm, voltage,     \* signed 16-bit readings
  heater, fan, drum,    \* the locally-held setpoints
  state, state_str,     \* raw device state byte and its label
  roast_number,         \* roast counter read by connect()
  command_queue,        \* self.command_queue, head first
  since_status_update,  \* current time - self.last_status_update, saturated
                        \* at status_update_interval
  call,                 \* the last call: its name, argument, locals and result
  io,                   \* the transport operations the last call performed
  requested,            \* the clamped target of the last set_heater and of the
                        \* last set_fan call, -1 before the first
  ncalls,               \* setter calls made so far
  gui,                  \* the window: connected, the three sliders, the last
                        \* handler run and the valueChanged signals the
                        \* sliders emitted in it
  tally                 \* how many heater and fan steps of each direction were
                        \* enqueued so far, kept until a status reply is
                        \* stored (`decoded`), and zero from then on

model == <<bt, dt, bt_ror, fan_rpm, voltage, heater, fan, drum, state, state_str>>
vars == <<usbhandle, bt, dt, bt_ror, fan_rpm, voltage, heater, fan, drum, state,
          state_str, roast_number, command_queue, since_status_update, call, io,
          requested, ncalls, gui, tally>>

\* One transport operation: its kind, its data (the bytes written, the number
\* of bytes asked for, the value returned; for find the product ID looked for
\* and 1 or 0 for a device or None returned) and whether it returned rather
\* than raised (for a read: returned data).
Ev(k, d, ok) == [k |-> k, data |-> d, ok |-> ok]

\* The record of a call: `arg` the argument (a setter's target in halves),
\* `cmd` the command popped from the queue, `due` whether the poll gate was
\* passed, `state1`/`state2` the two status replies read, `ret` the result.
Call(name, arg, cmd, due, s1, s2, ret) ==
  [name |-> name, arg |-> arg, cmd |-> cmd, due |-> due,
   state1 |-> s1, state2 |-> s2, ret |-> ret]

\* The Status Model as one record.
Snapshot ==
  [bt |-> bt, dt |-> dt, bt_ror |-> bt_ror, fan_rpm |-> fan_rpm,
   voltage |-> voltage, heater |-> heater, fan |-> fan, drum |-> drum,
   state |-> state, state_str |-> state_str]

Store(m) ==
  /\ bt' = m.bt
  /\ dt' = m.dt
  /\ bt_ror' = m.bt_ror
  /\ fan_rpm' = m.fan_rpm
  /\ voltage' = m.voltage
  /\ heater' = m.heater
  /\ fan' = m.fan
  /\ drum' = m.drum
  /\ state' = m.state
  /\ state_str' = m.state_str

\* __init__
Init ==
  /\ usbhandle = NoHandle
  /\ bt = 0
  /\ dt = 0
  /\ bt_ror = 0
  /\ fan_rpm = 0
  /\ voltage = 0
  /\ heater = 0
  /\ fan = 1
  /\ drum = 1
  /\ state = AILLIO_STATE_OFF
  /\ state_str = "off"
  /\ roast_number = -1
  /\ command_queue = <<>>
  /\ since_status_update = status_update_interval
  /\ call = Call("__init__", 0, <<>>, FALSE, <<>>, <<>>, "None")
  /\ io = <<>>
  /\ requested = [heater |-> -1, fan |-> -1]
  /\ ncalls = 0
  /\ gui = [connected |-> FALSE,
            heat |-> [min |-> 0, max |-> 9, value |-> 0, updating |-> FALSE],
            fan |-> [min |-> 1, max |-> 12, value |-> 1, updating |-> FALSE],
            drum |-> [min |-> 1, max |-> 9, value |-> 1, updating |-> FALSE],
            handler |-> "init_ui", emitted |-> <<>>]
  /\ tally = [heater_incr |-> 0, heater_decr |-> 0, fan_incr |-> 0, fan_decr |-> 0,
              decoded |-> FALSE]

\* ----------------------------------------------------------- transport

\* _send_command: one write when a handle is held, nothing otherwise; a write
\* that raises is logged and swallowed.
SendIO(h, cmd, ok) == IF h = NoHandle THEN <<>> ELSE <<Ev("write", cmd, ok)>>

\* _read_reply: the bytes read when a handle is held and the read succeeds,
\* None when no handle is held or the read raises (`data` empty).
ReadReply(h, data) == IF h = NoHandle THEN <<>> ELSE data

ReadIO(h, length, data) ==
  IF h = NoHandle THEN <<>> ELSE <<Ev("read", <<length>>, data # <<>>)>>

\* ------------------------------------------------------------- setters

\* Mutant: the heater clamped to the fan's upper limit.
HeaterValue_wrong_limit(v) == Max2(0, Min2(12, PyInt(v)))
HeaterValue(v) == Max2(0, Min2(9, PyInt(v)))
\* Mutant: the fan clamped to the heater's range.
FanValue_heater_range(v) == Max2(0, Min2(9, PyInt(v)))
FanValue(v) == Max2(1, Min2(12, PyInt(v)))
DrumValue(v) == Max2(1, Min2(9, PyInt(v)))

\* Mutant: the direction test reversed.
HeaterSteps_reversed(current, value) ==
  IF current < value
  THEN Repeat(AILLIO_CMD_HEATER_DECR, Abs(current - value))
  ELSE Repeat(AILLIO_CMD_HEATER_INCR, Abs(current - value))

\* Mutant: one step more than the difference.
HeaterSteps_one_extra(current, value) ==
  IF current > value
  THEN Repeat(AILLIO_CMD_HEATER_DECR, Abs(current - value) + 1)
  ELSE Repeat(AILLIO_CMD_HEATER_INCR, Abs(current - value) + 1)

\* The commands set_heater queues to go from current to value.
HeaterSteps(current, value) ==
  IF current > value
  THEN Repeat(AILLIO_CMD_HEATER_DECR, Abs(current - value))
  ELSE Repeat(AILLIO_CMD_HEATER_INCR, Abs(current - value))

\* Mutant: one step too few.
FanSteps_one_short(current, value) ==
  IF current > value
  THEN Repeat(AILLIO_CMD_FAN_DECR, Abs(current - value) - 1)
  ELSE Repeat(AILLIO_CMD_FAN_INCR, Abs(current - value) - 1)

\* The commands set_fan queues to go from current to value.
FanSteps(current, value) ==
  IF current > value
  THEN Repeat(AILLIO_CMD_FAN_DECR, Abs(current - value))
  ELSE Repeat(AILLIO_CMD_FAN_INCR, Abs(current - value))

\* The absolute-set frame set_drum queues.
\* Mutant: the value in the fourth byte.
DrumCommand_value_last(value) == <<50, 1, 0, value>>
DrumCommand(value) == <<50, 1, value, 0>>       \* [0x32, 0x01, value, 0x00]

set_heater(v) ==
  LET value == HeaterValue(v)
      current == heater
      diff == Abs(current - value)
  IN /\ IF diff = 0
        THEN UNCHANGED <<command_queue, heater>>
        ELSE /\ command_queue' = command_queue \o HeaterSteps(current, value)
             /\ heater' = value
     /\ call' = Call("set_heater", v, <<>>, FALSE, <<>>, <<>>, "None")
     /\ io' = <<>>
     /\ UNCHANGED <<usbhandle, bt, dt, bt_ror, fan_rpm, voltage, fan, drum, state,
                    state_str, roast_number, since_status_update>>

set_fan(v) ==
  LET value == FanValue(v)
      current == fan
      diff == Abs(current - value)
  IN /\ IF diff = 0
        THEN UNCHANGED <<command_queue, fan>>
        ELSE /\ command_queue' = command_queue \o FanSteps(current, value)
             /\ fan' = value
     /\ call' = Call("set_fan", v, <<>>, FALSE, <<>>, <<>>, "None")
     /\ io' = <<>>
     /\ UNCHANGED <<usbhandle, bt, dt, bt_ror, fan_rpm, voltage, heater, drum,
                    state, state_str, roast_number, since_status_update>>

set_drum(v) ==
  LET value == DrumValue(v)
  IN /\ command_queue' = Append(command_queue, DrumCommand(value))
     /\ drum' = value
     /\ call' = Call("set_drum", v, <<>>, FALSE, <<>>, <<>>, "None")
     /\ io' = <<>>
     /\ UNCHANGED <<usbhandle, bt, dt, bt_ror, fan_rpm, voltage, heater, fan,
                    state, state_str, roast_number, since_status_update>>

\* ---------------------------------------------------------------- tick

\* Mutant: an unknown state byte resets the label.
StateString_default(st, prev) ==
  IF st = AILLIO_STATE_OFF THEN "off"
  ELSE IF st = AILLIO_STATE_PH THEN "pre-heating"
  ELSE IF st = AILLIO_STATE_CHARGE THEN "charge"
  ELSE IF st = AILLIO_STATE_ROASTING THEN "roasting"
  ELSE IF st = AILLIO_STATE_COOLING THEN "cooling"
  ELSE IF st = AILLIO_STATE_SHUTDOWN THEN "shutdown"
  ELSE "off"

\* _update_state_string: the label of a known state; any other byte falls
\* through every branch and the label stays as it was.
StateString(st, prev) ==
  IF st = AILLIO_STATE_OFF THEN "off"
  ELSE IF st = AILLIO_STATE_PH THEN "pre-heating"
  ELSE IF st = AILLIO_STATE_CHARGE THEN "charge"
  ELSE IF st = AILLIO_STATE_ROASTING THEN "roasting"
  ELSE IF st = AILLIO_STATE_COOLING THEN "cooling"
  ELSE IF st = AILLIO_STATE_SHUTDOWN THEN "shutdown"
  ELSE prev

\* Mutant: the gate always passes.
PollDue_always(elapsed) == elapsed >= 0

\* The gate of _update_status: the poll is skipped while less than the
\* interval has elapsed since last_status_update.
PollDue(elapsed) == ~(elapsed < status_update_interval)

\* Mutant: the validity marker is not compared.
Accepted_unchecked(st) == Len(st) > 41

\* Whether a status buffer is accepted: state[41] exists (an IndexError is
\* caught otherwise) and equals the validity marker.
Accepted(st) == Len(st) > 41 /\ At(st, 41) = ValidMarker

\* Mutant: the decode keeps the locally-held heater and fan.
ParseControls_keep_setpoints(m, st) ==
  [m EXCEPT !.bt = RoundF1(PySlice(st, 36, 40)),
            !.bt_ror = RoundF1(PySlice(st, 4, 8)),
            !.dt = RoundF1(PySlice(st, 8, 12)),
            !.drum = At(st, 28),
            !.state = At(st, 29)]

\* Mutant: the control bytes read one offset too far.
ParseControls_shifted(m, st) ==
  [m EXCEPT !.bt = RoundF1(PySlice(st, 36, 40)),
            !.bt_ror = RoundF1(PySlice(st, 4, 8)),
            !.dt = RoundF1(PySlice(st, 8, 12)),
            !.fan = At(st, 27),
            !.heater = At(st, 28),
            !.drum = At(st, 29),
            !.state = At(st, 30)]

\* The assignments of _update_status up to the first unpack of a 16-bit field.
ParseControls(m, st) ==
  [m EXCEPT !.bt = RoundF1(PySlice(st, 36, 40)),
            !.bt_ror = RoundF1(PySlice(st, 4, 8)),
            !.dt = RoundF1(PySlice(st, 8, 12)),
            !.fan = At(st, 26),
            !.heater = At(st, 27),
            !.drum = At(st, 28),
            !.state = At(st, 29)]

\* Mutant: only the first reply is tested.
Decode_first_reply_only(m, state1, state2) ==
  IF state1 = <<>> THEN [m |-> m, ret |-> FALSE]
  ELSE LET st == state1 \o state2 IN
    IF ~(Len(st) > 41 /\ At(st, 41) = ValidMarker) THEN [m |-> m, ret |-> FALSE]
    ELSE [m |-> [m EXCEPT !.bt = RoundF1(PySlice(st, 36, 40)),
                          !.fan = At(st, 26), !.heater = At(st, 27),
                          !.drum = At(st, 28), !.state = At(st, 29)],
          ret |-> TRUE]

\* The body of _update_status after the gate, given the two replies: the new
\* Status Model and the result.  unpack raises on a slice that is too short;
\* the exception is caught after the assignments already made, and the result
\* is False.
Decode(m, state1, state2) ==
  IF state1 = <<>> \/ state2 = <<>> THEN [m |-> m, ret |-> FALSE]
  ELSE LET st == state1 \o state2 IN
    IF ~Accepted(st) THEN [m |-> m, ret |-> FALSE]
    ELSE LET m1 == ParseControls(m, st) IN
      IF Len(PySlice(st, 44, 46)) # 2 THEN [m |-> m1, ret |-> FALSE]
      ELSE LET m2 == [m1 EXCEPT !.fan_rpm = UnpackH(PySlice(st, 44, 46))] IN
        IF Len(PySlice(st, 48, 50)) # 2 THEN [m |-> m2, ret |-> FALSE]
        ELSE LET m3 == [m2 EXCEPT !.voltage = UnpackH(PySlice(st, 48, 50))] IN
          [m |-> [m3 EXCEPT !.state_str = StateString(m3.state, m3.state_str)],
           ret |-> TRUE]

\* _process_command_queue then the gate: whether this tick goes on to a status
\* round trip, given whether a command was popped (the settle delay passes
\* before the time is read).
ElapsedAtGate(popped) ==
  IF popped THEN Min2(since_status_update + SettleDelay, status_update_interval)
  ELSE since_status_update

\* Mutant: no status check on a tick that drained a command.
StatusDue_not_after_drain(popped) == ~popped /\ PollDue(ElapsedAtGate(popped))
StatusDue(popped) == PollDue(ElapsedAtGate(popped))

\* Mutant: the newest command is taken instead of the oldest.
PopLeft_newest(q) == [cmd |-> q[Len(q)], rest |-> SubSeq(q, 1, Len(q) - 1)]

\* Mutant: the head is read and left in place.
PopLeft_peek(q) == [cmd |-> Head(q), rest |-> q]

\* command_queue.popleft(): the head of the queue and what stays queued.
PopLeft(q) == [cmd |-> Head(q), rest |-> Tail(q)]

\* Mutant: a failing write of the drained command ends the tick.
update_readings_write_raises(t) ==
  LET popped == command_queue # <<>>
      cmd == IF popped THEN Head(command_queue) ELSE <<>>
      failed == popped /\ usbhandle # NoHandle /\ ~t.wq
      due == ~failed /\ PollDue(ElapsedAtGate(popped))
      state1 == IF due THEN ReadReply(usbhandle, t.r1) ELSE <<>>
      state2 == IF due THEN ReadReply(usbhandle, t.r2) ELSE <<>>
      m == IF due /\ state1 # <<>> /\ state2 # <<>>
                /\ Len(state1 \o state2) > 49 /\ At(state1 \o state2, 41) = ValidMarker
           THEN [Snapshot EXCEPT !.bt = RoundF1(PySlice(state1 \o state2, 36, 40))]
           ELSE Snapshot
  IN /\ command_queue' = IF popped THEN Tail(command_queue) ELSE command_queue
     /\ since_status_update' = IF due THEN 0 ELSE ElapsedAtGate(popped)
     /\ Store(m)
     /\ io' = (IF popped THEN SendIO(usbhandle, cmd, t.wq) ELSE <<>>)
              \o (IF due
                  THEN SendIO(usbhandle, AILLIO_CMD_STATUS1, t.w1)
                       \o ReadIO(usbhandle, 64, state1)
                       \o SendIO(usbhandle, AILLIO_CMD_STATUS2, t.w2)
                       \o ReadIO(usbhandle, 64, state2)
                  ELSE <<>>)
     /\ call' = Call("update_readings", 0, cmd, due, state1, state2,
                     IF failed THEN "raised" ELSE IF m # Snapshot THEN "True" ELSE "False")
     /\ UNCHANGED <<usbhandle, roast_number>>

\* Mutant: a command whose write failed, or that found no handle, stays at
\* the head of the queue.
update_readings_requeue(t) ==
  LET popped == command_queue # <<>>
      cmd == IF popped THEN Head(command_queue) ELSE <<>>
      sent == popped /\ usbhandle # NoHandle /\ t.wq
      due == PollDue(ElapsedAtGate(popped))
      state1 == IF due THEN ReadReply(usbhandle, t.r1) ELSE <<>>
      state2 == IF due THEN ReadReply(usbhandle, t.r2) ELSE <<>>
      res == IF due THEN Decode(Snapshot, state1, state2)
             ELSE [m |-> Snapshot, ret |-> FALSE]
  IN /\ command_queue' = IF sent THEN Tail(command_queue) ELSE command_queue
     /\ since_status_update' = IF due THEN 0 ELSE ElapsedAtGate(popped)
     /\ Store(res.m)
     /\ io' = (IF popped THEN SendIO(usbhandle, cmd, t.wq) ELSE <<>>)
              \o (IF due
                  THEN SendIO(usbhandle, AILLIO_CMD_STATUS1, t.w1)
                       \o ReadIO(usbhandle, 64, state1)
                       \o SendIO(usbhandle, AILLIO_CMD_STATUS2, t.w2)
                       \o ReadIO(usbhandle, 64, state2)
                  ELSE <<>>)
     /\ call' = Call("update_readings", 0, cmd, due, state1, state2,
                     IF res.ret THEN "True" ELSE "False")
     /\ UNCHANGED <<usbhandle, roast_number>>

\* update_readings.  t gives what the transport does: wq, w1, w2 whether the
\* writes of the drained command and of the two status requests succeed, r1
\* and r2 what the two reads return (empty: the read raised).
update_readings(t) ==
  LET popped == command_queue # <<>>
      cmd == IF popped THEN PopLeft(command_queue).cmd ELSE <<>>
      due == StatusDue(popped)
      state1 == IF due THEN ReadReply(usbhandle, t.r1) ELSE <<>>
      state2 == IF due THEN ReadReply(usbhandle, t.r2) ELSE <<>>
      res == IF due THEN Decode(Snapshot, state1, state2)
             ELSE [m |-> Snapshot, ret |-> FALSE]
  IN /\ command_queue' = IF popped THEN PopLeft(command_queue).rest
                         ELSE command_queue
     /\ since_status_update' = IF due THEN 0 ELSE ElapsedAtGate(popped)
     /\ Store(res.m)
     /\ io' = (IF popped THEN SendIO(usbhandle, cmd, t.wq) ELSE <<>>)
              \o (IF due
                  THEN SendIO(usbhandle, AILLIO_CMD_STATUS1, t.w1)
                       \o ReadIO(usbhandle, 64, state1)
                       \o SendIO(usbhandle, AILLIO_CMD_STATUS2, t.w2)
                       \o ReadIO(usbhandle, 64, state2)
                  ELSE <<>>)
     /\ call' = Call("update_readings", 0, cmd, due, state1, state2,
                     IF res.ret THEN "True" ELSE "False")
     /\ UNCHANGED <<usbhandle, roast_number>>

\* Time passing between two calls: d units of 10 ms.
Elapse(d) ==
  /\ since_status_update' = Min2(since_status_update + d, status_update_interval)
  /\ call' = Call("elapse", d, <<>>, FALSE, <<>>, <<>>, "None")
  /\ io' = <<>>
  /\ UNCHANGED <<usbhandle, bt, dt, bt_ror, fan_rpm, voltage, heater, fan, drum,
                 state, state_str, roast_number, command_queue>>

\* ------------------------------------------------------------- session

\* connect() runs as a sequence of stages over a record s: h the handle, roast
\* the roast counter, io the transport operations so far, ret the result once
\* the call has returned ("" while it runs).  c gives what the USB stack does.
Running(s) == s.ret = ""

\* usb.core.find for the primary product ID (lines 92-95).
FindPrimary(s, c) ==
  IF c.primary = "raises"
  THEN [s EXCEPT !.io = Append(@, Ev("find", <<AILLIO_PID>>, FALSE)), !.ret = "False"]
  ELSE [s EXCEPT !.h = IF c.primary = "found" THEN "R1" ELSE NoHandle,
                 !.io = Append(@, Ev("find", <<AILLIO_PID, IF c.primary = "found"
                                                           THEN 1 ELSE 0>>, TRUE))]

\* Mutant: the revision-3 product ID is looked for whatever the first find
\* returned.
FindRev3_always(s, c) ==
  IF ~Running(s) THEN s
  ELSE [s EXCEPT !.h = IF c.rev3 = "found" THEN "R1_REV3" ELSE NoHandle,
                 !.io = Append(@, Ev("find", <<AILLIO_PID_REV3, IF c.rev3 = "found"
                                                                THEN 1 ELSE 0>>, TRUE))]

\* The revision-3 product ID, tried when the primary is not found (97-102).
FindRev3(s, c) ==
  IF ~Running(s) \/ s.h # NoHandle THEN s
  ELSE IF c.rev3 = "raises"
  THEN [s EXCEPT !.io = Append(@, Ev("find", <<AILLIO_PID_REV3>>, FALSE)), !.ret = "False"]
  ELSE [s EXCEPT !.h = IF c.rev3 = "found" THEN "R1_REV3" ELSE NoHandle,
                 !.io = Append(@, Ev("find", <<AILLIO_PID_REV3, IF c.rev3 = "found"
                                                                THEN 1 ELSE 0>>, TRUE))]

\* Neither found: return False (104-106).
NotFound(s) ==
  IF Running(s) /\ s.h = NoHandle THEN [s EXCEPT !.ret = "False"] ELSE s

\* Detach the kernel driver if active; a failing detach is swallowed, a failing
\* is_kernel_driver_active is not (110-115, 151-153).
DetachKernel(s, c) ==
  IF ~Running(s) THEN s
  ELSE IF c.kernel = "raises"
  THEN [s EXCEPT !.io = Append(@, Ev("is_kernel_driver_active", <<>>, FALSE)),
                 !.ret = "False"]
  ELSE IF c.kernel = "active"
  THEN [s EXCEPT !.io = @ \o <<Ev("is_kernel_driver_active", <<1>>, TRUE),
                               Ev("detach_kernel_driver", <<>>, c.detachOk)>>]
  ELSE [s EXCEPT !.io = Append(@, Ev("is_kernel_driver_active", <<0>>, TRUE))]

\* Select the configuration when another one is active (117-124).  c.config
\* is the active configuration's value, 0 for no configuration (None), -1 when
\* get_active_configuration raises.
Configure(s, c) ==
  IF ~Running(s) THEN s
  ELSE IF c.config = -1
  THEN [s EXCEPT !.io = Append(@, Ev("get_active_configuration", <<>>, FALSE)),
                 !.ret = "False"]
  ELSE IF c.config # 0 /\ c.config # AILLIO_CONFIGURATION
  THEN [s EXCEPT !.io = @ \o <<Ev("get_active_configuration", <<c.config>>, TRUE),
                               Ev("set_configuration", <<AILLIO_CONFIGURATION>>,
                                  c.setcfgOk)>>,
                 !.ret = IF c.setcfgOk THEN "" ELSE "False"]
  ELSE [s EXCEPT !.io = Append(@, Ev("get_active_configuration", <<c.config>>, TRUE))]

\* Mutant: a failing claim is swallowed.
Claim_swallowed(s, c) ==
  IF ~Running(s) THEN s
  ELSE [s EXCEPT !.io = Append(@, Ev("claim_interface", <<>>, c.claimOk))]

\* Claim the interface (126-131).
Claim(s, c) ==
  IF ~Running(s) THEN s
  ELSE [s EXCEPT !.io = Append(@, Ev("claim_interface", <<>>, c.claimOk)),
                 !.ret = IF c.claimOk THEN "" ELSE "False"]

\* The first info request; the serial number and the firmware version are
\* only logged, but unpack raises on a reply shorter than 26 bytes (133-140).
Info1(s, c) ==
  IF ~Running(s) THEN s
  ELSE LET reply == ReadReply(s.h, c.r1)
           s1 == [s EXCEPT !.io = @ \o SendIO(s.h, AILLIO_CMD_INFO1, c.w1)
                                    \o ReadIO(s.h, 32, reply)]
       IN IF reply # <<>> /\ (Len(PySlice(reply, 0, 2)) # 2
                              \/ Len(PySlice(reply, 24, 26)) # 2)
          THEN [s1 EXCEPT !.ret = "False"]
          ELSE s1

\* The second info request: the roast counter (142-149).
Info2(s, c) ==
  IF ~Running(s) THEN s
  ELSE LET reply == ReadReply(s.h, c.r2)
           s1 == [s EXCEPT !.io = @ \o SendIO(s.h, AILLIO_CMD_INFO2, c.w2)
                                    \o ReadIO(s.h, 36, reply)]
       IN IF reply = <<>> THEN [s1 EXCEPT !.ret = "True"]
          ELSE IF Len(PySlice(reply, 27, 31)) # 4 THEN [s1 EXCEPT !.ret = "False"]
          ELSE [s1 EXCEPT !.roast = UnpackBigI(PySlice(reply, 27, 31)),
                          !.ret = "True"]

ConnectResult(c) ==
  LET s0 == [h |-> usbhandle, roast |-> roast_number, io |-> <<>>, ret |-> ""]
  IN Info2(Info1(Claim(Configure(DetachKernel(
       NotFound(FindRev3(FindPrimary(s0, c), c)), c), c), c), c), c)

connect(c) ==
  LET s == ConnectResult(c)
  IN /\ usbhandle' = s.h
     /\ roast_number' = s.roast
     /\ io' = s.io
     /\ call' = Call("connect", 0, <<>>, FALSE, <<>>, <<>>, s.ret)
     /\ UNCHANGED <<bt, dt, bt_ror, fan_rpm, voltage, heater, fan, drum, state,
                    state_str, command_queue, since_status_update>>

\* Mutant: the handle is kept.
disconnect_keeps_handle(r) ==
  /\ io' = IF usbhandle = NoHandle THEN <<>>
           ELSE IF r = "release" THEN <<Ev("release_interface", <<>>, FALSE)>>
           ELSE <<Ev("release_interface", <<>>, TRUE),
                  Ev("dispose_resources", <<>>, r # "dispose")>>
  /\ call' = Call("disconnect", 0, <<>>, FALSE, <<>>, <<>>, "None")
  /\ UNCHANGED <<usbhandle, bt, dt, bt_ror, fan_rpm, voltage, heater, fan, drum,
                 state, state_str, roast_number, command_queue, since_status_update>>

\* disconnect(): with a handle, release the interface and dispose of the
\* resources (a failing release skips the dispose; either failure is
\* swallowed), then drop the handle; without one, nothing.  r is "ok",
\* "release" or "dispose": the operation that raises, if any.
disconnect(r) ==
  /\ io' = IF usbhandle = NoHandle THEN <<>>
           ELSE IF r = "release" THEN <<Ev("release_interface", <<>>, FALSE)>>
           ELSE <<Ev("release_interface", <<>>, TRUE),
                  Ev("dispose_resources", <<>>, r # "dispose")>>
  /\ usbhandle' = NoHandle
  /\ call' = Call("disconnect", 0, <<>>, FALSE, <<>>, <<>>, "None")
  /\ UNCHANGED <<bt, dt, bt_ror, fan_rpm, voltage, heater, fan, drum, state,
                 state_str, roast_number, command_queue, since_status_update>>

\* --------------------------------------------------- the environment

\* A 64-byte status reply carrying the given fields at the offsets the
\* decoder reads: f.ror at 4, f.dt at 8, fan/heater/drum/state at 26..29,
\* f.bt at 36, the validity marker at 41, f.rpm at 44, f.volt at 48.
StatusFrame(f) ==
  [i \in 1..64 |->
     LET o == i - 1 IN
       IF o \in 4..7 THEN f.ror[o - 3]
       ELSE IF o \in 8..11 THEN f.dt[o - 7]
       ELSE IF o = 26 THEN f.fan
       ELSE IF o = 27 THEN f.heater
       ELSE IF o = 28 THEN f.drum
       ELSE IF o = 29 THEN f.state
       ELSE IF o \in 36..39 THEN f.bt[o - 35]
       ELSE IF o = 41 THEN f.valid
       ELSE IF o \in 44..45 THEN f.rpm[o - 43]
       ELSE IF o \in 48..49 THEN f.volt[o - 47]
       ELSE 0]

Fields(valid, fb, hb, db, sb, btb, rorb, dtb, rpmb, voltb) ==
  [valid |-> valid, fan |-> fb, heater |-> hb, drum |-> db, state |-> sb,
   bt |-> btb, ror |-> rorb, dt |-> dtb, rpm |-> rpmb, volt |-> voltb]

F200_08 == <<123, 20, 72, 67>>   \* 200.08
F215_3 == <<205, 76, 87, 67>>    \* 215.3
F12_34 == <<164, 112, 69, 65>>   \* 12.34
F25_25 == <<0, 0, 202, 65>>      \* 25.25
FNeg3_14 == <<195, 245, 72, 192>> \* -3.14
F100_5 == <<0, 0, 201, 66>>      \* 100.5

\* A roasting device: fan 5, heater 4, drum 5.
FrameRoasting ==
  StatusFrame(Fields(10, 5, 4, 5, 6, F200_08, F12_34, F215_3, <<220, 5>>, <<120, 0>>))
\* The same reading with the validity marker missing.
FrameInvalid ==
  StatusFrame(Fields(0, 7, 8, 9, 8, F100_5, FNeg3_14, F25_25, <<254, 255>>, <<110, 0>>))
\* A valid reply whose state byte is none of the known states.
FrameUnknownState ==
  StatusFrame(Fields(10, 3, 2, 3, 10, F25_25, F12_34, F100_5, <<1, 0>>, <<119, 0>>))
\* A valid reply whose control bytes are outside the documented ranges.
FrameOutOfRange ==
  StatusFrame(Fields(10, 0, 10, 0, 2, F100_5, FNeg3_14, F200_08, <<0, 0>>, <<0, 0>>))
\* A valid reply for each known state byte.
FrameOfState(sb) ==
  StatusFrame(Fields(10, 2, 1, 2, sb, F100_5, F12_34, F200_08, <<232, 3>>, <<120, 0>>))

KnownStates ==
  {AILLIO_STATE_OFF, AILLIO_STATE_PH, AILLIO_STATE_CHARGE,
   AILLIO_STATE_ROASTING, AILLIO_STATE_COOLING, AILLIO_STATE_SHUTDOWN}

ZeroFrame == [i \in 1..64 |-> 0]

\* What the two status reads of one poll may return, as pairs; the empty
\* reply is a failed read.
StatusReplies ==
  {<<FrameRoasting, <<>>>>, <<FrameRoasting, ZeroFrame>>,
   <<FrameInvalid, ZeroFrame>>, <<FrameOutOfRange, ZeroFrame>>}

TickInput(wq, w1, w2, r1, r2) == [wq |-> wq, w1 |-> w1, w2 |-> w2, r1 |-> r1, r2 |-> r2]

\* What the transport may do in one tick.
TickInputs ==
  {TickInput(wq, TRUE, TRUE, r[1], r[2]) : wq \in BOOLEAN, r \in StatusReplies}
    \cup {TickInput(TRUE, TRUE, TRUE, <<>>, <<>>)}

\* Inputs the tick does not read are fixed, so that each behaviour of the
\* transport is counted once.
TickReads(t) ==
  /\ (usbhandle = NoHandle \/ command_queue = <<>>) => t.wq
  /\ (usbhandle = NoHandle \/ ~StatusDue(command_queue # <<>>)) =>
        t.w1 /\ t.w2 /\ t.r1 = <<>> /\ t.r2 = <<>>

\* Setter targets, in halves.
HeaterTargets == {3, 4}
FanTargets == {6}
DrumTargets == {4}

\* Delays between calls, in units of 10 ms.
Delays == {10}

Info1Reply == [i \in 1..32 |-> IF i = 1 THEN 57 ELSE IF i = 25 THEN 3 ELSE 0]
Info2Reply == [i \in 1..36 |-> IF i = 31 THEN 42 ELSE 0]

ConnectCase(primary, rev3, kernel, detachOk, config, setcfgOk, claimOk, w1, r1, w2, r2) ==
  [primary |-> primary, rev3 |-> rev3, kernel |-> kernel, detachOk |-> detachOk,
   config |-> config, setcfgOk |-> setcfgOk, claimOk |-> claimOk,
   w1 |-> w1, r1 |-> r1, w2 |-> w2, r2 |-> r2]

\* What the USB stack may do during connect(): the device answers, no device
\* is there, or the device is there and refuses the configuration.
ConnectCases ==
  {ConnectCase("found", "absent", "inactive", TRUE, 1, TRUE, TRUE, TRUE, Info1Reply, TRUE, Info2Reply),
   ConnectCase("absent", "absent", "inactive", TRUE, 1, TRUE, TRUE, TRUE, <<>>, TRUE, <<>>),
   ConnectCase("found", "absent", "active", FALSE, 2, FALSE, TRUE, TRUE, <<>>, TRUE, <<>>)}

DisconnectCases == {"ok"}

\* ------------------------------------------------------ specification

\* How many of the commands in q are cmd.
Count(q, cmd) == Cardinality({i \in 1..Len(q) : q[i] = cmd})

\* The tally after the commands in q were appended to the queue.
Enqueued(q) ==
  IF tally.decoded THEN tally ELSE
  [tally EXCEPT !.heater_incr = @ + Count(q, AILLIO_CMD_HEATER_INCR),
                !.heater_decr = @ + Count(q, AILLIO_CMD_HEATER_DECR),
                !.fan_incr = @ + Count(q, AILLIO_CMD_FAN_INCR),
                !.fan_decr = @ + Count(q, AILLIO_CMD_FAN_DECR)]

\* What a call added to the queue.
Appended == SubSeq(command_queue', Len(command_queue) + 1, Len(command_queue'))

\* connect() is the first call made on a new object.
Connect(cases) ==
  /\ call.name = "__init__"
  /\ \E c \in cases : connect(c)
  /\ UNCHANGED <<requested, ncalls, gui, tally>>

Disconnect(cases) ==
  /\ \E r \in cases : disconnect(r)
  /\ UNCHANGED <<requested, ncalls, gui, tally>>

SetHeater(targets) ==
  /\ ncalls < MaxCalls
  /\ \E v \in targets :
       /\ set_heater(v)
       /\ requested' = [requested EXCEPT !.heater = HeaterValue(v)]
  /\ ncalls' = ncalls + 1
  /\ tally' = Enqueued(Appended)
  /\ UNCHANGED gui

SetFan(targets) ==
  /\ ncalls < MaxCalls
  /\ \E v \in targets :
       /\ set_fan(v)
       /\ requested' = [requested EXCEPT !.fan = FanValue(v)]
  /\ ncalls' = ncalls + 1
  /\ tally' = Enqueued(Appended)
  /\ UNCHANGED gui

SetDrum(targets) ==
  /\ ncalls < MaxCalls
  /\ \E v \in targets : set_drum(v)
  /\ ncalls' = ncalls + 1
  /\ tally' = Enqueued(Appended)
  /\ UNCHANGED <<requested, gui>>

Tick(inputs) ==
  /\ \E t \in inputs : TickReads(t) /\ update_readings(t)
  /\ tally' = IF /\ call'.state1 # <<>>
                 /\ call'.state2 # <<>>
                 /\ Accepted(call'.state1 \o call'.state2)
              THEN [heater_incr |-> 0, heater_decr |-> 0, fan_incr |-> 0,
                    fan_decr |-> 0, decoded |-> TRUE]
              ELSE tally
  /\ UNCHANGED <<requested, ncalls, gui>>

Wait(delays) ==
  /\ \E d \in delays : Elapse(d)
  /\ UNCHANGED <<requested, ncalls, gui, tally>>

\* The interface under any caller: connect, disconnect, the three setters,
\* the tick and the passing of time, in any order.
Next ==
  \/ Connect(ConnectCases)
  \/ Disconnect(DisconnectCases)
  \/ SetHeater(HeaterTargets)
  \/ SetFan(FanTargets)
  \/ SetDrum(DrumTargets)
  \/ Tick(TickInputs)
  \/ Wait(Delays)

Spec == Init /\ [][Next]_vars

\* The setters alone, over every target from below the range to above it,
\* halves included, with ticks draining the queue in between.
AllHeaterTargets == {2 * n : n \in -1..10} \cup {-1, 7, 19}
AllFanTargets == {2 * n : n \in 0..13} \cup {1, 25, 40}
AllDrumTargets == {2 * n : n \in 0..10} \cup {1, 19}

NoTransport == {TickInput(TRUE, TRUE, TRUE, <<>>, <<>>)}

NextSetters ==
  \/ SetHeater(AllHeaterTargets)
  \/ SetFan(AllFanTargets)
  \/ SetDrum(AllDrumTargets)
  \/ Tick(NoTransport)

SpecSetters == Init /\ [][NextSetters]_vars

\* The status poll alone on a connected device: every known state byte, an
\* unknown one, a reply without the validity marker, and short reads.
ShortRejected == <<SubSeq(FrameRoasting, 1, 30), ZeroFrame>>
ShortIndexError == <<SubSeq(FrameRoasting, 1, 20), <<0>>>>
ShortPartial == <<SubSeq(FrameUnknownState, 1, 44), <<0>>>>

AllStatusReplies ==
  {<<FrameOfState(sb), ZeroFrame>> : sb \in KnownStates}
    \cup {<<FrameUnknownState, ZeroFrame>>, <<FrameRoasting, ZeroFrame>>,
          <<FrameInvalid, ZeroFrame>>, <<FrameRoasting, <<>>>>, <<<<>>, ZeroFrame>>,
          ShortRejected, ShortIndexError, ShortPartial}

StatusInputs ==
  {TickInput(TRUE, TRUE, TRUE, r[1], r[2]) : r \in AllStatusReplies}
    \cup {TickInput(TRUE, TRUE, TRUE, <<>>, <<>>)}

DeviceAnswers == {c \in ConnectCases : c.primary = "found" /\ c.config = 1}

NextStatus ==
  \/ Connect(DeviceAnswers)
  \/ Disconnect(DisconnectCases)
  \/ Tick(StatusInputs)
  \/ Wait(Delays)

SpecStatus == Init /\ [][NextStatus]_vars

\* The tick on a device that answered connect(), or on no device at all, with
\* every write failing or not, reads that fail, and calls 90 ms or 100 ms
\* apart.
TransportReplies ==
  {<<FrameRoasting, ZeroFrame>>, <<FrameRoasting, <<>>>>, <<<<>>, ZeroFrame>>,
   <<<<>>, <<>>>>}

TransportInputs ==
  {TickInput(wq, w, w, r[1], r[2]) : wq \in BOOLEAN, w \in BOOLEAN,
                                     r \in TransportReplies}

TransportDelays == {9, 10}

NextTransport ==
  \/ Connect(DeviceAnswers)
  \/ SetHeater(HeaterTargets)
  \/ SetFan(FanTargets)
  \/ Tick(TransportInputs)
  \/ Wait(TransportDelays)

SpecTransport == Init /\ [][NextTransport]_vars

\* The same calls with the tick coming again and again, as the caller's timer
\* makes it.
SpecDrain == Init /\ [][NextTransport]_vars /\ WF_vars(Tick(TransportInputs))

\* The session: connect() under everything the USB stack may do at each of
\* its steps, then ticks, setter calls and disconnect() with either of its
\* two calls failing.
InfoCases ==
  {<<TRUE, Info1Reply, TRUE, Info2Reply>>, <<FALSE, <<>>, TRUE, Info2Reply>>,
   <<TRUE, Info1Reply, FALSE, <<>>>>, <<TRUE, <<57>>, TRUE, Info2Reply>>}

AllConnectCases ==
  {ConnectCase(p, r, k, d, cf, sc, cl, i[1], i[2], i[3], i[4]) :
     p \in {"found", "absent", "raises"}, r \in {"found", "absent", "raises"},
     k \in {"active", "inactive", "raises"}, d \in BOOLEAN,
     cf \in {-1, 0, AILLIO_CONFIGURATION, 2}, sc \in BOOLEAN, cl \in BOOLEAN,
     i \in InfoCases}

AllDisconnectCases == {"ok", "release", "dispose"}

SessionInputs ==
  {TickInput(TRUE, TRUE, TRUE, r[1], r[2]) :
     r \in {<<FrameRoasting, ZeroFrame>>, <<<<>>, <<>>>>}}

NextSession ==
  \/ Connect(AllConnectCases)
  \/ Disconnect(AllDisconnectCases)
  \/ SetHeater(HeaterTargets)
  \/ Tick(SessionInputs)
  \/ Wait(Delays)

SpecSession == Init /\ [][NextSession]_vars

\* The drum: set_drum over every value of its range and beyond, and a device
\* whose valid replies carry each drum value 1..9 at offset 28, with fan,
\* heater and state bytes that differ from it.
DrumFrame(v) ==
  StatusFrame(Fields(10, v + 3, 9 - v, v, (2 * v) % 10, F100_5, F12_34, F200_08,
                     <<232, 3>>, <<120, 0>>))

DrumInputs ==
  {TickInput(TRUE, TRUE, TRUE, DrumFrame(v), ZeroFrame) : v \in 1..9}
    \cup {TickInput(TRUE, TRUE, TRUE, <<>>, <<>>)}

DrumRangeTargets == {2 * v : v \in 0..10} \cup {11}

NextDrum ==
  \/ Connect(DeviceAnswers)
  \/ SetDrum(DrumRangeTargets)
  \/ Tick(DrumInputs)
  \/ Wait(Delays)

SpecDrum == Init /\ [][NextDrum]_vars

\* ----------------------------------------------------------- the window

\* The roaster object as one record, and the assignment of one to the state.
Roaster ==
  [usbhandle |-> usbhandle, roast_number |-> roast_number,
   command_queue |-> command_queue, since |-> since_status_update,
   m |-> Snapshot, call |-> call, io |-> io]

Assign(r) ==
  /\ usbhandle' = r.usbhandle
  /\ roast_number' = r.roast_number
  /\ command_queue' = r.command_queue
  /\ since_status_update' = r.since
  /\ Store(r.m)
  /\ call' = r.call
  /\ io' = r.io

\* roaster.update_readings() called on the roaster r from inside a handler of
\* the window.
TickOn(r, t) ==
  LET popped == r.command_queue # <<>>
      cmd == IF popped THEN PopLeft(r.command_queue).cmd ELSE <<>>
      elapsed == IF popped THEN Min2(r.since + SettleDelay, status_update_interval)
                 ELSE r.since
      due == PollDue(elapsed)
      state1 == IF due THEN ReadReply(r.usbhandle, t.r1) ELSE <<>>
      state2 == IF due THEN ReadReply(r.usbhandle, t.r2) ELSE <<>>
      res == IF due THEN Decode(r.m, state1, state2) ELSE [m |-> r.m, ret |-> FALSE]
  IN [r EXCEPT
        !.command_queue = IF popped THEN PopLeft(r.command_queue).rest ELSE @,
        !.since = IF due THEN 0 ELSE elapsed,
        !.m = res.m,
        !.io = (IF popped THEN SendIO(r.usbhandle, cmd, t.wq) ELSE <<>>)
               \o (IF due
                   THEN SendIO(r.usbhandle, AILLIO_CMD_STATUS1, t.w1)
                        \o ReadIO(r.usbhandle, 64, state1)
                        \o SendIO(r.usbhandle, AILLIO_CMD_STATUS2, t.w2)
                        \o ReadIO(r.usbhandle, 64, state2)
                   ELSE <<>>),
        !.call = Call("update_readings", 0, cmd, due, state1, state2,
                      IF res.ret THEN "True" ELSE "False")]

\* roaster.set_heater(value), set_fan(value), set_drum(value) called on r with
\* the integer value of a slider.
SetterOn(r, name, value) ==
  IF name = "heat"
  THEN LET v == HeaterValue(2 * value) IN
       [r EXCEPT !.command_queue = IF v = r.m.heater THEN @
                                   ELSE @ \o HeaterSteps(r.m.heater, v),
                 !.m.heater = v,
                 !.call = Call("set_heater", 2 * value, <<>>, FALSE, <<>>, <<>>, "None"),
                 !.io = <<>>]
  ELSE IF name = "fan"
  THEN LET v == FanValue(2 * value) IN
       [r EXCEPT !.command_queue = IF v = r.m.fan THEN @
                                   ELSE @ \o FanSteps(r.m.fan, v),
                 !.m.fan = v,
                 !.call = Call("set_fan", 2 * value, <<>>, FALSE, <<>>, <<>>, "None"),
                 !.io = <<>>]
  ELSE LET v == DrumValue(2 * value) IN
       [r EXCEPT !.command_queue = Append(@, DrumCommand(v)),
                 !.m.drum = v,
                 !.call = Call("set_drum", 2 * value, <<>>, FALSE, <<>>, <<>>, "None"),
                 !.io = <<>>]

\* QSlider.setValue keeps the value inside the slider's range.
QBound(lo, hi, v) == Max2(lo, Min2(hi, v))

\* Mutant: the signal is emitted whatever the flag says.
SliderMoved_always_emits(sl, value) ==
  LET new == QBound(sl.min, sl.max, value)
  IN [slider |-> [sl EXCEPT !.value = new],
      emitted |-> IF new # sl.value THEN <<new>> ELSE <<>>]

\* slider.setValue(value): when the value changes, QSlider's valueChanged runs
\* _on_value_changed, which emits the ControlSlider's valueChanged unless
\* _updating_programmatically is set (lines 176-181).
SliderMoved(sl, value) ==
  LET new == QBound(sl.min, sl.max, value)
  IN [slider |-> [sl EXCEPT !.value = new],
      emitted |-> IF new # sl.value /\ ~sl.updating THEN <<new>> ELSE <<>>]

\* ControlSlider.set_value (lines 187-195).
SliderSetValue(sl, value, programmatic) ==
  IF programmatic
  THEN LET mv == SliderMoved([sl EXCEPT !.updating = TRUE], value)
       IN [mv EXCEPT !.slider.updating = FALSE]
  ELSE SliderMoved(sl, value)

\* The value of a step of a handler, computed once: the element of a
\* one-element set.
The(S) == CHOOSE x \in S : TRUE

\* on_heat_changed, on_fan_changed, on_drum_changed: the setter is called
\* when connected.  g is the window and its roaster.
OnChanged(g, name, value) ==
  IF g.gui.connected THEN [g EXCEPT !.r = SetterOn(@, name, value)] ELSE g

\* set_value on the slider `name`, and the handler of the signal it emits.
SetSlider(g, name, value, programmatic) ==
  The({ The({ IF res.emitted = <<>> THEN g1 ELSE OnChanged(g1, name, res.emitted[1])
              : g1 \in {[g EXCEPT !.gui[name] = res.slider,
                                  !.gui.emitted = @ \o [i \in 1..Len(res.emitted) |->
                                                          <<name, res.emitted[i]>>]]} })
        : res \in {SliderSetValue(g.gui[name], value, programmatic)} })

\* sync_sliders_to_roaster (lines 438-453).
SyncSliders(g, t) ==
  IF ~g.gui.connected THEN g
  ELSE The({ The({ The({ SetSlider(g3, "drum", g3.r.m.drum, TRUE)
                         : g3 \in {SetSlider(g2, "fan", g2.r.m.fan, TRUE)} })
                   : g2 \in {SetSlider(g1, "heat", g1.r.m.heater, TRUE)} })
             : g1 \in {[g EXCEPT !.r = TickOn(@, t)]} })

\* AillioR1GUI.update_readings (lines 495-523): the tick, then each slider
\* whose value differs from the roaster's is set programmatically.
GuiUpdate(g, t) ==
  IF ~g.gui.connected THEN g
  ELSE The({ LET current_heat == g1.r.m.heater
                 current_fan == g1.r.m.fan
                 current_drum == g1.r.m.drum
             IN The({ The({ IF g3.gui.drum.value # current_drum
                            THEN SetSlider(g3, "drum", current_drum, TRUE) ELSE g3
                            : g3 \in {IF g2.gui.fan.value # current_fan
                                      THEN SetSlider(g2, "fan", current_fan, TRUE)
                                      ELSE g2} })
                      : g2 \in {IF g1.gui.heat.value # current_heat
                                THEN SetSlider(g1, "heat", current_heat, TRUE)
                                ELSE g1} })
             : g1 \in {[g EXCEPT !.r = TickOn(@, t)]} })

\* connect_roaster (lines 381-436): a new roaster, connect(), and on success
\* the first synchronisation of the sliders.
GuiConnect(g, c, t) ==
  The({ The({ IF s.ret = "True"
              THEN The({ SyncSliders(g1, t)
                         : g1 \in {[g EXCEPT !.r = r0, !.gui.connected = TRUE]} })
              ELSE [g EXCEPT !.r = r0, !.gui.connected = FALSE]
              : r0 \in {[g.r EXCEPT !.usbhandle = s.h, !.roast_number = s.roast,
                                    !.io = s.io,
                                    !.call = Call("connect", 0, <<>>, FALSE, <<>>,
                                                  <<>>, s.ret)]} })
        : s \in {ConnectResult(c)} })

\* A handler starts with no signal emitted yet.
Window == [gui |-> [gui EXCEPT !.emitted = <<>>], r |-> Roaster]

NoReads == TickInput(TRUE, TRUE, TRUE, <<>>, <<>>)

\* The history variables after a handler of the window.
Recorded ==
  /\ requested' = IF call'.name = "set_heater" /\ call' # call
                  THEN [requested EXCEPT !.heater = heater']
                  ELSE IF call'.name = "set_fan" /\ call' # call
                  THEN [requested EXCEPT !.fan = fan']
                  ELSE requested
  /\ tally' = IF /\ call'.name = "update_readings"
                 /\ call'.state1 # <<>>
                 /\ call'.state2 # <<>>
                 /\ Accepted(call'.state1 \o call'.state2)
              THEN [heater_incr |-> 0, heater_decr |-> 0, fan_incr |-> 0,
                    fan_decr |-> 0, decoded |-> TRUE]
              ELSE Enqueued(Appended)

\* The window is constructed: connect_roaster runs once, from __init__.
ConnectRoaster(cases, inputs) ==
  /\ gui.handler = "init_ui"
  /\ \E c \in cases, t \in inputs :
       /\ t.wq
       /\ ConnectResult(c).ret # "True" => t = NoReads
       /\ \E w \in {Window} : \E g \in {GuiConnect(w, c, t)} :
            Assign(g.r) /\ gui' = [g.gui EXCEPT !.handler = "connect_roaster"]
  /\ Recorded
  /\ UNCHANGED ncalls

\* The update timer fires.
TimerFires(inputs) ==
  /\ gui.handler # "init_ui"
  /\ \E t \in inputs :
       /\ IF gui.connected THEN TickReads(t) ELSE t = NoReads
       /\ \E w \in {Window} : \E g \in {GuiUpdate(w, t)} :
            Assign(g.r) /\ gui' = [g.gui EXCEPT !.handler = "update_readings"]
  /\ Recorded
  /\ UNCHANGED ncalls

\* The user drags a slider to another value of its range.
UserMoves(moves) ==
  /\ gui.handler # "init_ui"
  /\ ncalls < MaxCalls
  /\ \E mv \in moves :
       /\ mv[2] \in gui[mv[1]].min..gui[mv[1]].max
       /\ mv[2] # gui[mv[1]].value
       /\ \E w \in {Window} : \E g \in {SetSlider(w, mv[1], mv[2], FALSE)} :
            Assign(g.r) /\ gui' = [g.gui EXCEPT !.handler = "user"]
  /\ Recorded
  /\ ncalls' = ncalls + 1

\* The event loop idles.
Idle(delays) ==
  /\ gui.handler # "init_ui"
  /\ \E d \in delays : Elapse(d)
  /\ gui' = [gui EXCEPT !.handler = "idle", !.emitted = <<>>]
  /\ UNCHANGED <<requested, ncalls, tally>>

UserMoveSet == {<<"heat", 1>>, <<"heat", 2>>, <<"fan", 3>>, <<"drum", 4>>}

NextGui ==
  \/ ConnectRoaster(ConnectCases, TickInputs)
  \/ TimerFires(TickInputs)
  \/ UserMoves(UserMoveSet)
  \/ Idle(Delays)

SpecGui == Init /\ [][NextGui]_vars

\* --------------------------------------------------------------- claims

\* clamp(x, lo, hi) as the claims use it.
ClampTo(lo, hi, x) == IF x < lo THEN lo ELSE IF x > hi THEN hi ELSE x

\* n copies of cmd.
Run(cmd, n) == [i \in 1..n |-> cmd]

\* The steps from `from` to `to`: |to - from| increments when to > from,
\* decrements when to < from.
StepsBetween(from, to, incr, decr) ==
  IF to > from THEN Run(incr, to - from) ELSE Run(decr, from - to)

HeaterTarget(c) == ClampTo(0, 9, PyInt(c.arg))
FanTarget(c) == ClampTo(1, 12, PyInt(c.arg))
DrumTarget(c) == ClampTo(1, 9, PyInt(c.arg))

\* The writes of a status request among the transport operations tr.
StatusRequests(tr) ==
  {i \in 1..Len(tr) : tr[i].k = "write"
                      /\ tr[i].data \in {AILLIO_CMD_STATUS1, AILLIO_CMD_STATUS2}}

\* The writes of anything else: the queued control commands.
ControlWrites(tr) ==
  {i \in 1..Len(tr) : tr[i].k = "write"
                      /\ tr[i].data \notin {AILLIO_CMD_STATUS1, AILLIO_CMD_STATUS2}}

\* C1: with the heater in [0,9], set_heater(target) appends exactly
\* |clamp(target,0,9) - heater| commands to the queue, all increments when the
\* clamped target is above the heater and all decrements when it is below,
\* and nothing else.
C1_HeaterSteps ==
  [][(call'.name = "set_heater" /\ heater \in 0..9) =>
       command_queue' = command_queue
          \o StepsBetween(heater, HeaterTarget(call'),
                          AILLIO_CMD_HEATER_INCR, AILLIO_CMD_HEATER_DECR)]_vars

\* C1 witness: from heater 9, set_heater(-1) has appended 9 decrements behind
\* the 9 increments of the call before.
C1_Witness ==
  /\ call.name = "set_heater"
  /\ call.arg = -2
  /\ heater = 0
  /\ command_queue = Run(AILLIO_CMD_HEATER_INCR, 9) \o Run(AILLIO_CMD_HEATER_DECR, 9)

\* C2: with the fan in [1,12], set_fan(target) clamps the target to [1,12]
\* and appends exactly |clamp(target) - fan| fan steps in the direction of
\* clamp(target) - fan.
C2_FanSteps ==
  [][(call'.name = "set_fan" /\ fan \in 1..12) =>
       /\ fan' = FanTarget(call')
       /\ command_queue' = command_queue
            \o StepsBetween(fan, FanTarget(call'),
                            AILLIO_CMD_FAN_INCR, AILLIO_CMD_FAN_DECR)]_vars

\* C2 witness: set_fan(20) with fan = 1 and an empty queue has queued exactly
\* 11 fan increments.
C2_Witness ==
  /\ call.name = "set_fan"
  /\ call.arg = 40
  /\ ncalls = 1
  /\ fan = 12
  /\ command_queue = Run(AILLIO_CMD_FAN_INCR, 11)

\* C3 (as claimed): the locally-held setpoints stay in their ranges in every
\* reachable state.
C3_SetpointsInRange ==
  /\ heater \in 0..9
  /\ fan \in 1..12
  /\ drum \in 1..9

HeaterStepQueued ==
  \E i \in 1..Len(command_queue) :
     command_queue[i] \in {AILLIO_CMD_HEATER_INCR, AILLIO_CMD_HEATER_DECR}
FanStepQueued ==
  \E i \in 1..Len(command_queue) :
     command_queue[i] \in {AILLIO_CMD_FAN_INCR, AILLIO_CMD_FAN_DECR}

\* C5 (as claimed): a set_heater call made while steps of an earlier one are
\* still queued enqueues |clamp(b) - clamp(a)| steps, a the target of the
\* call before, whatever ticks and status polls came in between; the same for
\* set_fan.
C5_DeltaAgainstRequested ==
  [][/\ (call'.name = "set_heater" /\ requested.heater # -1 /\ HeaterStepQueued) =>
          Len(command_queue') - Len(command_queue)
            = Abs(HeaterTarget(call') - requested.heater)
     /\ (call'.name = "set_fan" /\ requested.fan # -1 /\ FanStepQueued) =>
          Len(command_queue') - Len(command_queue)
            = Abs(FanTarget(call') - requested.fan)]_vars

\* The status buffer the last tick put together.
StatusBuffer(c) == c.state1 \o c.state2
\* Whether that tick stored the control bytes of its reply.
Stored(c) ==
  /\ c.name = "update_readings"
  /\ c.state1 # <<>>
  /\ c.state2 # <<>>
  /\ Len(StatusBuffer(c)) > 41
  /\ StatusBuffer(c)[42] = 10

\* C5 (amended): a setter computes its delta against the locally-held value:
\* set_heater(b) appends, contiguously, |clamp(b) - heater| steps from the
\* heater held at the call, and leaves the heater at clamp(b); a tick whose
\* status reply is accepted replaces the held heater and fan by bytes 27 and
\* 26 of the reply, any other tick and any other call leaves them alone.  So
\* the delta is against the last requested target only until a status reply
\* is accepted.
C5_DeltaAgainstHeld ==
  [][/\ call'.name = "set_heater" =>
          /\ command_queue' = command_queue
               \o StepsBetween(heater, HeaterTarget(call'),
                               AILLIO_CMD_HEATER_INCR, AILLIO_CMD_HEATER_DECR)
          /\ heater' = HeaterTarget(call')
     /\ call'.name = "set_fan" =>
          /\ command_queue' = command_queue
               \o StepsBetween(fan, FanTarget(call'),
                               AILLIO_CMD_FAN_INCR, AILLIO_CMD_FAN_DECR)
          /\ fan' = FanTarget(call')
     /\ Stored(call') =>
          /\ heater' = StatusBuffer(call')[28]
          /\ fan' = StatusBuffer(call')[27]
     /\ (call'.name # "set_heater" /\ ~Stored(call')) => heater' = heater
     /\ (call'.name # "set_fan" /\ ~Stored(call')) => fan' = fan]_vars

\* C5 witness: set_heater(2) queued two increments, a tick sent one and its
\* poll stored the device's heater 4, and set_heater(1.5) then queued three
\* decrements behind the increment still waiting.
C5_Witness ==
  /\ call.name = "set_heater"
  /\ call.arg = 3
  /\ heater = 1
  /\ since_status_update = 0
  /\ command_queue = <<AILLIO_CMD_HEATER_INCR>> \o Run(AILLIO_CMD_HEATER_DECR, 3)

\* C6: right after a setter returns, the setpoint it sets equals the clamped
\* target, whatever is still in the queue.
C6_SetpointIsTarget ==
  /\ call.name = "set_heater" => heater = HeaterTarget(call)
  /\ call.name = "set_fan" => fan = FanTarget(call)
  /\ call.name = "set_drum" => drum = DrumTarget(call)

\* C6 witness: with heater = 3 and nothing queued, set_heater(9) has left 6
\* increments in the queue and the heater reads 9.
C6_Witness ==
  /\ call.name = "set_heater"
  /\ call.arg = 18
  /\ heater = 9
  /\ command_queue = Run(AILLIO_CMD_HEATER_INCR, 6)

\* C7: set_heater and set_fan with a clamped target equal to the held value
\* change neither the queue nor the setpoint, and a call that repeats the
\* call before it adds nothing to the queue.
C7_SetterIdempotent ==
  [][/\ (call'.name = "set_heater" /\ HeaterTarget(call') = heater) =>
          (command_queue' = command_queue /\ heater' = heater)
     /\ (call'.name = "set_fan" /\ FanTarget(call') = fan) =>
          (command_queue' = command_queue /\ fan' = fan)
     /\ (call'.name \in {"set_heater", "set_fan"} /\ call' = call) =>
          command_queue' = command_queue]_vars

\* C7 witness: set_fan(12.5) called twice from the initial state: the second
\* call found the fan at 12 and left the 11 increments of the first.
C7_Witness ==
  /\ call.name = "set_fan"
  /\ call.arg = 25
  /\ ncalls = 2
  /\ requested.heater = -1
  /\ fan = 12
  /\ since_status_update = status_update_interval
  /\ command_queue = Run(AILLIO_CMD_FAN_INCR, 11)

\* C8 (as claimed): set_drum with a clamped target equal to the held drum
\* value leaves the queue unchanged.
C8_DrumIdempotent ==
  [][(call'.name = "set_drum" /\ DrumTarget(call') = drum) =>
       command_queue' = command_queue]_vars

\* The Status Model.
StatusModel ==
  <<bt, bt_ror, dt, fan, heater, drum, state, state_str, fan_rpm, voltage>>

\* C9: a status poll whose concatenated reply carries at offset 41 a byte
\* other than 10 leaves every field of the Status Model as it was, and
\* update_readings returns False.
C9_InvalidLeavesModel ==
  [][(/\ call'.name = "update_readings"
      /\ call'.state1 # <<>>
      /\ call'.state2 # <<>>
      /\ Len(StatusBuffer(call')) > 41
      /\ StatusBuffer(call')[42] # 10) =>
       (StatusModel' = StatusModel /\ call'.ret = "False")]_vars

\* C9 witness: the bean temperature 200.1 of an earlier poll is still held
\* after a poll whose reply lacks the marker.
C9_Witness ==
  /\ call.name = "update_readings"
  /\ call.state1 = FrameInvalid
  /\ call.state2 = ZeroFrame
  /\ call.ret = "False"
  /\ bt = 2001
  /\ state_str = "roasting"

\* The label of each known state byte.
LabelOf(sb) ==
  CASE sb = 0 -> "off"
    [] sb = 2 -> "pre-heating"
    [] sb = 4 -> "charge"
    [] sb = 6 -> "roasting"
    [] sb = 8 -> "cooling"
    [] sb = 9 -> "shutdown"

\* C10: a complete valid reply is decoded whatever its state byte: the tick
\* returns True and the raw state is byte 29; the label becomes the label of
\* that state for each of the six known bytes and stays as it was for any
\* other byte.
C10_StateLabel ==
  [][(Stored(call') /\ Len(StatusBuffer(call')) >= 50) =>
       LET sb == StatusBuffer(call')[30]
       IN /\ call'.ret = "True"
          /\ state' = sb
          /\ state_str' = IF sb \in {0, 2, 4, 6, 8, 9} THEN LabelOf(sb)
                          ELSE state_str]_vars

\* C10 witness: the state byte 0x0A arrived while the label was "roasting",
\* and the label still is.
C10_Witness ==
  /\ call.name = "update_readings"
  /\ call.ret = "True"
  /\ state = 10
  /\ state_str = "roasting"

IsPrefix(p, q) == Len(p) <= Len(q) /\ SubSeq(q, 1, Len(p)) = p

\* C12 (as claimed): a tick with a non-empty queue removes exactly the head of
\* the queue and transmits that command and no other; a tick with an empty
\* queue transmits no control command.
C12_HeadTransmitted ==
  [][call'.name = "update_readings" =>
       IF command_queue # <<>>
       THEN /\ command_queue' = Tail(command_queue)
            /\ ControlWrites(io') = {1}
            /\ io'[1].data = Head(command_queue)
       ELSE /\ command_queue' = command_queue
            /\ ControlWrites(io') = {}]_vars

\* C12 (amended): a tick with a non-empty queue removes exactly the head of
\* the queue; when a handle is held it writes that command, once, before
\* anything else, and no other queued command; when no handle is held it
\* writes nothing and the command is discarded.  A tick with an empty queue
\* writes no control command, and every other call leaves what is queued in
\* place, adding only at the tail.  So the control commands written are in the
\* order they were enqueued, and are all of the dequeued ones only while a
\* handle is held.
C12_FifoOnePerTick ==
  [][/\ call'.name = "update_readings" =>
          IF command_queue # <<>>
          THEN /\ command_queue' = Tail(command_queue)
               /\ IF usbhandle # NoHandle
                  THEN ControlWrites(io') = {1} /\ io'[1].data = Head(command_queue)
                  ELSE io' = <<>>
          ELSE /\ command_queue' = command_queue
               /\ ControlWrites(io') = {}
     /\ call'.name # "update_readings" =>
          IsPrefix(command_queue, command_queue')]_vars

\* C12 witness: with a heater step queued before two fan steps, a tick has
\* written the heater step and the two fan steps are what is left.
C12_Witness ==
  /\ call.name = "update_readings"
  /\ call.cmd = AILLIO_CMD_HEATER_INCR
  /\ io # <<>>
  /\ io[1] = Ev("write", AILLIO_CMD_HEATER_INCR, TRUE)
  /\ command_queue = Run(AILLIO_CMD_FAN_INCR, 2)

\* C13: set_drum with a target whose clamped value differs from the held drum
\* value appends exactly one command, [0x32, 0x01, v, 0x00] with v the target
\* clamped to [1,9], and no step command.
C13_DrumAbsoluteSet ==
  [][(call'.name = "set_drum" /\ DrumTarget(call') # drum) =>
       command_queue' = Append(command_queue, <<50, 1, DrumTarget(call'), 0>>)]_vars

\* C13 witness: set_drum(9.5) on a new object has queued [0x32, 0x01, 9, 0x00]
\* and nothing else.
C13_Witness ==
  /\ call.name = "set_drum"
  /\ call.arg = 19
  /\ drum = 9
  /\ command_queue = <<<<50, 1, 9, 0>>>>

\* C14 (as claimed): no handle is held after construction, after a connect()
\* that returned False, and after disconnect().
C14_HandleOnlyWhenConnected ==
  /\ call.name = "__init__" => usbhandle = NoHandle
  /\ (call.name = "connect" /\ call.ret = "False") => usbhandle = NoHandle
  /\ call.name = "disconnect" => usbhandle = NoHandle

\* The operations of kind k among tr.
OfKind(tr, k) == {i \in 1..Len(tr) : tr[i].k = k}

\* C15: disconnect() raises nothing and leaves no handle; on a session with no
\* handle it performs no release and no dispose; with a handle it releases
\* the interface once; called right after a disconnect() it performs nothing
\* and changes nothing.  It touches neither the Status Model nor the queue.
C15_DisconnectIdempotent ==
  [][call'.name = "disconnect" =>
       /\ call'.ret = "None"
       /\ usbhandle' = NoHandle
       /\ UNCHANGED <<StatusModel, command_queue, roast_number, since_status_update>>
       /\ usbhandle = NoHandle => io' = <<>>
       /\ usbhandle # NoHandle => OfKind(io', "release_interface") = {1}
       /\ call.name = "disconnect" => (io' = <<>> /\ usbhandle' = usbhandle)]_vars

\* C15 witness: a disconnect() that found no handle on a session that had
\* connected and read the roast counter: the handle had been dropped by an
\* earlier disconnect().
C15_Witness ==
  /\ call.name = "disconnect"
  /\ io = <<>>
  /\ usbhandle = NoHandle
  /\ roast_number = 42

\* C16: connect() looks for the primary product ID first, and for the
\* revision-3 product ID second, exactly when the first find returned no
\* device; when no find returned a device it returns False having made no
\* call other than find, and no handle is held.
C16_DiscoveryOrder ==
  call.name = "connect" =>
    /\ io # <<>>
    /\ io[1].k = "find"
    /\ io[1].data[1] = AILLIO_PID
    /\ \A i \in OfKind(io, "find") \ {1} :
          i = 2 /\ io[i].data[1] = AILLIO_PID_REV3 /\ io[1] = Ev("find", <<AILLIO_PID, 0>>, TRUE)
    /\ io[1] = Ev("find", <<AILLIO_PID, 0>>, TRUE) => 2 \in OfKind(io, "find")
    /\ (\A i \in OfKind(io, "find") : io[i].data # <<io[i].data[1], 1>>) =>
          /\ call.ret = "False"
          /\ OfKind(io, "find") = 1..Len(io)
          /\ usbhandle = NoHandle

\* C16 witness: the primary product ID was not found, the revision-3 one was,
\* and connect() went on to return True.
C16_Witness ==
  /\ call.name = "connect"
  /\ call.ret = "True"
  /\ usbhandle = "R1_REV3"
  /\ Len(io) > 2
  /\ io[1] = Ev("find", <<AILLIO_PID, 0>>, TRUE)
  /\ io[2] = Ev("find", <<AILLIO_PID_REV3, 1>>, TRUE)

\* C17: in connect(), detach_kernel_driver, failing or not, is followed by the
\* configuration step; a failure of get_active_configuration, of
\* set_configuration or of claim_interface is the last call made, with False
\* returned and no info request written; set_configuration is called exactly
\* when an active configuration was returned and differs from the required
\* one.
C17_ConnectFailures ==
  call.name = "connect" =>
    /\ \A i \in OfKind(io, "detach_kernel_driver") :
          i < Len(io) /\ io[i + 1].k = "get_active_configuration"
    /\ \A i \in 1..Len(io) :
          (io[i].k \in {"get_active_configuration", "set_configuration",
                        "claim_interface"} /\ ~io[i].ok) =>
             (i = Len(io) /\ call.ret = "False" /\ OfKind(io, "write") = {})
    /\ \A i \in OfKind(io, "set_configuration") :
          /\ i > 1
          /\ io[i - 1].k = "get_active_configuration"
          /\ io[i - 1].data \notin {<<0>>, <<AILLIO_CONFIGURATION>>}
    /\ \A i \in OfKind(io, "get_active_configuration") :
          (io[i].ok /\ io[i].data \notin {<<0>>, <<AILLIO_CONFIGURATION>>}) =>
             (i < Len(io) /\ io[i + 1].k = "set_configuration")

\* C17 witness: the detach failed, another configuration was active and was
\* replaced, and connect() returned True after both info requests.
C17_Witness ==
  /\ call.name = "connect"
  /\ call.ret = "True"
  /\ \E i \in 1..Len(io) : io[i] = Ev("detach_kernel_driver", <<>>, FALSE)
  /\ \E i \in 1..Len(io) : io[i] = Ev("set_configuration", <<AILLIO_CONFIGURATION>>, TRUE)
  /\ Cardinality(OfKind(io, "write")) = 2

\* C18: a tick in which a write fails, of the drained command or of a status
\* request, still ends with a boolean result and raises nothing; the drained
\* command stays removed; the status check runs as on any tick: when the
\* interval has elapsed both status requests are written and both replies
\* read; and the Status Model changes only if the reply read in that tick is
\* accepted.
C18_WriteFailureRecoverable ==
  [][(/\ call'.name = "update_readings"
      /\ \E i \in OfKind(io', "write") : ~io'[i].ok) =>
       LET elapsed == since_status_update
                        + (IF command_queue # <<>> THEN SettleDelay ELSE 0)
       IN /\ call'.ret \in {"True", "False"}
          /\ command_queue # <<>> => command_queue' = Tail(command_queue)
          /\ elapsed >= status_update_interval =>
               /\ Cardinality(StatusRequests(io')) = 2
               /\ Cardinality(OfKind(io', "read")) = 2
          /\ ~Stored(call') => StatusModel' = StatusModel
          /\ call'.ret = "True" <=> Stored(call')]_vars

\* C18 witness: the write of a queued heater step failed, and the same tick
\* went on to poll and stored the reply.
C18_Witness ==
  /\ call.name = "update_readings"
  /\ io # <<>>
  /\ io[1] = Ev("write", AILLIO_CMD_HEATER_INCR, FALSE)
  /\ Cardinality(StatusRequests(io)) = 2
  /\ call.ret = "True"
  /\ bt = 2001

\* C19: a poll in which either status read fails or returns nothing returns
\* False and leaves every field of the Status Model as it was.
C19_ReadFailureNoData ==
  [][(/\ call'.name = "update_readings"
      /\ \E i \in OfKind(io', "read") : ~io'[i].ok) =>
       (call'.ret = "False" /\ StatusModel' = StatusModel)]_vars

\* C19 witness: after a poll that read 100.5, a poll whose first read returned
\* a valid reply and whose second read failed has returned False, and the
\* bean temperature is still 100.5.
C19_Witness ==
  /\ call.name = "update_readings"
  /\ call.state1 = FrameRoasting
  /\ call.state2 = <<>>
  /\ Len(io) = 4
  /\ ~io[4].ok
  /\ call.ret = "False"
  /\ bt = 1005

\* C20: the frame set_drum(v) appends carries the clamped v, which is v for
\* v in [1,9], at byte offset 2; a valid reply stores its bytes 26, 27, 28 and
\* 29 as fan, heater, drum and raw state; so when the reply to the tick that
\* wrote a drum frame carries at offset 28 the value of that frame, the drum
\* read back is the value that was set.
C20_DrumRoundTrip ==
  [][/\ call'.name = "set_drum" =>
          /\ command_queue' # <<>>
          /\ command_queue'[Len(command_queue')][3] = DrumTarget(call')
          /\ call'.arg \in {2 * v : v \in 1..9} =>
               2 * command_queue'[Len(command_queue')][3] = call'.arg
     /\ Stored(call') =>
          /\ fan' = StatusBuffer(call')[27]
          /\ heater' = StatusBuffer(call')[28]
          /\ drum' = StatusBuffer(call')[29]
          /\ state' = StatusBuffer(call')[30]
     /\ (/\ Stored(call')
         /\ Len(call'.cmd) = 4
         /\ call'.cmd[1] = 50
         /\ StatusBuffer(call')[29] = call'.cmd[3]) =>
          drum' = call'.cmd[3]]_vars

\* C20 witness: the tick wrote the frame of set_drum(5), the reply carried 5
\* at offset 28 with fan 8, heater 4 and state 0, and those are the values
\* held.
C20_Witness ==
  /\ call.name = "update_readings"
  /\ call.cmd = <<50, 1, 5, 0>>
  /\ call.ret = "True"
  /\ call.state1 = DrumFrame(5)
  /\ drum = 5
  /\ fan = 8
  /\ heater = 4
  /\ state = 0

\* C21 (as claimed): a status round trip that fails, by a failed read or a
\* validity byte other than 10, leaves the time of the last poll as it was,
\* so the interval is still elapsed and the next tick polls again.
C21_ClockOnlyOnSuccess ==
  [][(/\ call'.name = "update_readings"
      /\ StatusRequests(io') # {}
      /\ call'.ret = "False") =>
       since_status_update' = status_update_interval]_vars

\* C22: a tick with a non-empty queue removes the head whatever happens to
\* it and writes at most one control command; when the write fails, or no
\* handle is held, no control command is written successfully in that tick
\* and the command is not put back, while the setpoints the setter already
\* moved stay where they are unless a status reply is accepted.  A queue entry
\* is therefore written at most once.
C22_NoRetry ==
  [][(call'.name = "update_readings" /\ command_queue # <<>>) =>
       /\ command_queue' = Tail(command_queue)
       /\ Cardinality(ControlWrites(io')) <= 1
       /\ (usbhandle = NoHandle \/ \E i \in ControlWrites(io') : ~io'[i].ok) =>
            /\ \A i \in ControlWrites(io') : ~io'[i].ok
            /\ ~Stored(call') => UNCHANGED <<heater, fan, drum>>]_vars

\* C22 witness: set_heater(2) queued two increments; the write of the first
\* failed, one increment is left in the queue and the heater still reads 2.
C22_Witness ==
  /\ call.name = "update_readings"
  /\ call.cmd = AILLIO_CMD_HEATER_INCR
  /\ io # <<>>
  /\ io[1] = Ev("write", AILLIO_CMD_HEATER_INCR, FALSE)
  /\ command_queue = <<AILLIO_CMD_HEATER_INCR>>
  /\ heater = 2

\* C23: every tick shortens a non-empty queue by exactly one command,
\* whatever the writes and the poll do, and only a setter lengthens it, so n
\* queued commands are gone after exactly n ticks without a setter call; and
\* when the tick keeps being called a non-empty queue eventually is empty.
C23_QueueDrains ==
  /\ [][/\ call'.name = "update_readings" =>
             Len(command_queue') = Max2(Len(command_queue) - 1, 0)
        /\ call'.name \notin {"update_readings", "set_heater", "set_fan", "set_drum"} =>
             command_queue' = command_queue]_vars
  /\ (command_queue # <<>>) ~> (command_queue = <<>>)

\* C23 witness: the last of the four steps that set_heater(2) and set_fan(3)
\* queued has been removed by a tick without a device, and the queue is empty.
C23_Witness ==
  /\ call.name = "update_readings"
  /\ call.cmd = AILLIO_CMD_FAN_INCR
  /\ usbhandle = NoHandle
  /\ command_queue = <<>>
  /\ requested.heater = 2
  /\ requested.fan = 3

\* C24: as long as no status reply has been stored, the held heater is its
\* initial value 0 plus the heater increments ever enqueued minus the heater
\* decrements ever enqueued, whether or not they are still in the queue, and
\* the held fan is its initial value 1 plus the fan increments minus the fan
\* decrements.
C24_StepConservation ==
  ~tally.decoded =>
    /\ heater = 0 + tally.heater_incr - tally.heater_decr
    /\ fan = 1 + tally.fan_incr - tally.fan_decr

\* C24 witness: set_heater(5) then set_heater(3) enqueued five increments and
\* two decrements, six of which the ticks have removed; the heater reads 3.
C24_Witness ==
  /\ call.name = "update_readings"
  /\ ~tally.decoded
  /\ tally.heater_incr = 5
  /\ tally.heater_decr = 2
  /\ heater = 3
  /\ command_queue = <<AILLIO_CMD_HEATER_DECR>>

\* C25: synchronising the sliders from the roaster never feeds back into
\* commands.  In connect_roaster and in the periodic update no valueChanged
\* signal is emitted, the last call on the roaster is never a setter and the
\* command queue only loses its head, while every slider the handler touched
\* shows the roaster's value bounded to the slider's range.  A setter is
\* called only when the user moves a slider: then exactly one signal is
\* emitted, and the setter of that slider runs with the new value if the
\* window is connected and the roaster is left alone if it is not.
SetterNames == {"set_heater", "set_fan", "set_drum"}

SetterOf(name) ==
  IF name = "heat" THEN "set_heater" ELSE IF name = "fan" THEN "set_fan" ELSE "set_drum"

Synchronised ==
  /\ gui'.heat.value = QBound(0, 9, heater')
  /\ gui'.fan.value = QBound(1, 12, fan')
  /\ gui'.drum.value = QBound(1, 9, drum')

C25_SyncNeverCommands ==
  [][/\ gui'.handler \in {"connect_roaster", "update_readings"} =>
          /\ gui'.emitted = <<>>
          /\ call' = call \/ call'.name \notin SetterNames
          /\ \/ command_queue' = command_queue
             \/ command_queue # <<>> /\ command_queue' = Tail(command_queue)
          /\ gui'.connected => Synchronised
          /\ ~gui'.connected => UNCHANGED <<gui.heat, gui.fan, gui.drum>>
     /\ (call' # call /\ call'.name \in SetterNames) => gui'.handler = "user"
     /\ gui'.handler = "user" =>
          /\ Len(gui'.emitted) = 1
          /\ gui'[gui'.emitted[1][1]].value = gui'.emitted[1][2]
          /\ IF gui.connected
             THEN /\ call'.name = SetterOf(gui'.emitted[1][1])
                  /\ call'.arg = 2 * gui'.emitted[1][2]
             ELSE UNCHANGED <<command_queue, call, heater, fan, drum>>]_vars

C25_Witness ==
  /\ gui.handler = "update_readings"
  /\ gui.connected
  /\ call.ret = "True"
  /\ heater = 10
  /\ gui.heat.value = 9
  /\ fan = 0
  /\ gui.fan.value = 1
  /\ gui.emitted = <<>>
  /\ command_queue = <<>>

====
